---- MODULE Spec2Model ----
(***************************************************************************)
(* Model of the Holster configuration store (src/holster.py): a JSON file  *)
(* with two mappings, "mcpServers" (active) and "unusedMcpServers"         *)
(* (inactive), and the create / update-status / delete handlers that read  *)
(* the file, change an in-memory copy and write it back.                   *)
(*                                                                         *)
(* A Python dict is modelled as the sequence of its entries in insertion   *)
(* order (the order json.dump writes them in); AsMap forgets the order and *)
(* gives the mapping that dict equality compares.                          *)
(***************************************************************************)
EXTENDS Integers, Sequences, FiniteSets, TLC

VARIABLES
    file,        \* content of the file at config_path
    prev,        \* history: content of the file when the last call started
    call,        \* history: the last call, its arguments and how it ended
    round_trip,  \* history: progress of a deactivate / activate pair
    lifecycle,   \* history: progress of a create / deactivate / delete triple
    pc,          \* position of the process: "closed" before the store is
                 \* constructed, "idle" between calls, else inside _write_config
    pending,     \* the in-memory config that _write_config is writing
    fs,          \* the directories that are scanned, and what they hold
    scan,        \* history: the last scanning call and what it returned
    callers      \* two store objects on the same file: each being constructed,
                 \* idle, or inside a call before its open or before its close

vars == <<file, prev, call, round_trip, lifecycle, pc, pending, fs, scan, callers>>

----------------------------------------------------------------------------
(* Bounds and input domains *)

MaxBatch == 2

Names == {"server1", "server2", "server3"}

LaunchSpecs ==
    { [command |-> "uv", args |-> <<"--directory", "/path/to/server", "run", "server.py">>],
      [command |-> "uvx", args |-> <<"mcp-server-calculator">>] }

ServerConfigs ==
    { [name |-> n, command |-> s.command, args |-> s.args] : n \in Names, s \in LaunchSpecs }

Batches == UNION { [1..k -> Names] : k \in 0..MaxBatch }

----------------------------------------------------------------------------
(* Python dict, in insertion order *)

Keys(d) == { d[i].key : i \in DOMAIN d }

Has(d, k) == \E i \in DOMAIN d : d[i].key = k

Get(d, k) == d[CHOOSE i \in DOMAIN d : d[i].key = k].value

SetItem(d, k, v) ==
    IF Has(d, k)
    THEN [i \in DOMAIN d |-> IF d[i].key = k THEN [key |-> k, value |-> v] ELSE d[i]]
    ELSE Append(d, [key |-> k, value |-> v])

DelItem(d, k) == SelectSeq(d, LAMBDA e : e.key # k)

AsMap(d) == [k \in Keys(d) |-> Get(d, k)]

----------------------------------------------------------------------------
(* The file and the exceptions *)

EmptyConfig == [mcpServers |-> <<>>, unusedMcpServers |-> <<>>]

NoExc == [type |-> "", msg |-> "", name |-> ""]

ValueError(msg, name) == [type |-> "ValueError", msg |-> msg, name |-> name]

JSONDecodeError == [type |-> "JSONDecodeError", msg |-> "", name |-> ""]

\* A complete document, as json.dump leaves it once the file is closed.
Complete(config) == [state |-> "complete", config |-> config]

\* open(path, "w") has truncated the file: zero bytes.
Truncated == [state |-> "empty", config |-> EmptyConfig]

\* A proper prefix of the text of config has reached the file.
Partial(config) == [state |-> "partial", config |-> config]

\* No file at config_path.
Absent == [state |-> "absent", config |-> EmptyConfig]

FileNotFoundError == [type |-> "FileNotFoundError", msg |-> "", name |-> ""]

\* config[key] on a document that has no such top-level key
KeyError(key) == [type |-> "KeyError", msg |-> "", name |-> key]

HasKey(config, key) == key \in DOMAIN config

\* Mutant: the initial document is written whether or not the file exists.
Holster_init_Overwrite(f) == Complete(EmptyConfig)

\* Holster.__init__: the file is created when there is none, else left alone
Holster_init(f) == IF f.state = "absent" THEN Complete(EmptyConfig) ELSE f

\* json.load accepts the complete text only
_read_config(f) ==
    IF f.state = "complete"
    THEN [raised |-> FALSE, exc |-> NoExc, config |-> f.config]
    ELSE IF f.state = "absent"
         THEN [raised |-> TRUE, exc |-> FileNotFoundError, config |-> EmptyConfig]
         ELSE [raised |-> TRUE, exc |-> JSONDecodeError, config |-> EmptyConfig]

\* open(path, "w"); json.dump(config); close, run to completion
_write_config(f, config) == Complete(config)

Normal(config) == [raised |-> FALSE, exc |-> NoExc, config |-> config]

Raise(exc, config) == [raised |-> TRUE, exc |-> exc, config |-> config]

----------------------------------------------------------------------------
(* create_server *)

\* Mutant: the name is looked up in the active mapping only.
create_server_run_ActiveOnly(config, server_config) ==
    LET name == server_config.name IN
    IF Has(config.mcpServers, name)
    THEN Raise(ValueError("already exists", name), config)
    ELSE Normal([config EXCEPT !.mcpServers =
                    SetItem(@, name, [command |-> server_config.command,
                                      args |-> server_config.args])])

\* Mutant: no lookup at all, the entry is stored over an existing one.
create_server_run_Overwrite(config, server_config) ==
    Normal([config EXCEPT !.mcpServers =
               SetItem(@, server_config.name, [command |-> server_config.command,
                                               args |-> server_config.args])])

\* Mutant: the entry is stored without its arguments.
create_server_run_DropArgs(config, server_config) ==
    LET name == server_config.name IN
    IF Has(config.mcpServers, name) \/ Has(config.unusedMcpServers, name)
    THEN Raise(ValueError("already exists", name), config)
    ELSE Normal([config EXCEPT !.mcpServers =
                    SetItem(@, name, [command |-> server_config.command,
                                      args |-> <<>>])])

\* lines 57-67: the in-memory part; the two lookups of line 60 are made in
\* order, the second one only when the first finds nothing
create_server_run(config, server_config) ==
    LET name == server_config.name IN
    IF ~HasKey(config, "mcpServers") THEN Raise(KeyError("mcpServers"), config)
    ELSE IF Has(config.mcpServers, name)
    THEN Raise(ValueError("already exists", name), config)
    ELSE IF ~HasKey(config, "unusedMcpServers")
    THEN Raise(KeyError("unusedMcpServers"), config)
    ELSE IF Has(config.unusedMcpServers, name)
    THEN Raise(ValueError("already exists", name), config)
    ELSE Normal([config EXCEPT !.mcpServers =
                    SetItem(@, name, [command |-> server_config.command,
                                      args |-> server_config.args])])

create_server(f, server_config) ==
    LET rd == _read_config(f) IN
    IF rd.raised THEN [raised |-> TRUE, exc |-> rd.exc, file |-> f]
    ELSE LET r == create_server_run(rd.config, server_config) IN
         IF r.raised THEN [raised |-> TRUE, exc |-> r.exc, file |-> f]
         ELSE [raised |-> FALSE, exc |-> NoExc, file |-> _write_config(f, r.config)]

----------------------------------------------------------------------------
(* read_servers *)

\* Mutant: the mappings are answered from a copy kept since the previous call.
read_servers_Cached(f) ==
    IF prev.state = "complete" /\ HasKey(prev.config, "mcpServers")
       /\ HasKey(prev.config, "unusedMcpServers")
    THEN [raised |-> FALSE, exc |-> NoExc,
          active |-> prev.config.mcpServers, inactive |-> prev.config.unusedMcpServers]
    ELSE [raised |-> TRUE, exc |-> JSONDecodeError, active |-> <<>>, inactive |-> <<>>]

read_servers(f) ==
    LET rd == _read_config(f) IN
    IF rd.raised THEN [raised |-> TRUE, exc |-> rd.exc, active |-> <<>>, inactive |-> <<>>]
    ELSE IF ~HasKey(rd.config, "mcpServers")
    THEN [raised |-> TRUE, exc |-> KeyError("mcpServers"), active |-> <<>>, inactive |-> <<>>]
    ELSE IF ~HasKey(rd.config, "unusedMcpServers")
    THEN [raised |-> TRUE, exc |-> KeyError("unusedMcpServers"),
          active |-> <<>>, inactive |-> <<>>]
    ELSE [raised |-> FALSE, exc |-> NoExc,
          active |-> rd.config.mcpServers, inactive |-> rd.config.unusedMcpServers]

----------------------------------------------------------------------------
(* update_server_status *)

source_key(active) == IF ~active THEN "mcpServers" ELSE "unusedMcpServers"

target_key(active) == IF ~active THEN "unusedMcpServers" ELSE "mcpServers"

NotFoundIn(active) == IF ~active THEN "not found in active list" ELSE "not found in inactive list"

\* Mutant: the entry is copied to the target and not deleted from the source.
move_server_KeepSource(config, name, active) ==
    [config EXCEPT ![target_key(active)] =
        SetItem(@, name, Get(config[source_key(active)], name))]

\* Mutant: the entry arrives in the target mapping without its args.
move_server_DropArgs(config, name, active) ==
    LET value == Get(config[source_key(active)], name)
        moved == [config EXCEPT ![target_key(active)] =
                      SetItem(@, name, [command |-> value.command, args |-> <<>>])]
    IN [moved EXCEPT ![source_key(active)] = DelItem(@, name)]

\* lines 94-95: move one entry on the in-memory copy
move_server(config, name, active) ==
    LET moved == [config EXCEPT ![target_key(active)] =
                      SetItem(@, name, Get(config[source_key(active)], name))]
    IN [moved EXCEPT ![source_key(active)] = DelItem(@, name)]

\* lines 86-95: check and move, element by element, from position i on
RECURSIVE update_server_status_loop(_, _, _, _)
update_server_status_loop(config, server_names, i, active) ==
    IF i > Len(server_names) THEN Normal(config)
    ELSE LET name == server_names[i] IN
         IF ~HasKey(config, source_key(active))
         THEN Raise(KeyError(source_key(active)), config)
         ELSE IF ~Has(config[source_key(active)], name)
         THEN Raise(ValueError(NotFoundIn(active), name), config)
         ELSE IF ~HasKey(config, target_key(active))
         THEN Raise(KeyError(target_key(active)), config)
         ELSE update_server_status_loop(move_server(config, name, active),
                                        server_names, i + 1, active)

\* Mutant: the in-memory copy is written back also when the loop raises.
update_server_status_WriteOnError(f, server_names, active) ==
    LET rd == _read_config(f) IN
    IF rd.raised THEN [raised |-> TRUE, exc |-> rd.exc, file |-> f]
    ELSE LET r == update_server_status_loop(rd.config, server_names, 1, active) IN
         [raised |-> r.raised, exc |-> r.exc, file |-> _write_config(f, r.config)]

update_server_status(f, server_names, active) ==
    LET rd == _read_config(f) IN
    IF rd.raised THEN [raised |-> TRUE, exc |-> rd.exc, file |-> f]
    ELSE LET r == update_server_status_loop(rd.config, server_names, 1, active) IN
         IF r.raised THEN [raised |-> TRUE, exc |-> r.exc, file |-> f]
         ELSE [raised |-> FALSE, exc |-> NoExc, file |-> _write_config(f, r.config)]

----------------------------------------------------------------------------
(* delete_servers *)

\* Mutant: the name is popped from the active mapping only.
pop_server_ActiveOnly(config, name) ==
    [config EXCEPT !.mcpServers = DelItem(@, name)]

\* lines 112-113: pop the name from both mappings
pop_server(config, name) ==
    [config EXCEPT !.mcpServers = DelItem(@, name),
                   !.unusedMcpServers = DelItem(@, name)]

\* Mutant: every name is checked against the document as read, then all are
\* popped.
delete_servers_loop_ValidateFirst(config, server_names, i) ==
    LET names == { server_names[j] : j \in i..Len(server_names) }
        missing == { j \in i..Len(server_names) :
                       /\ ~Has(config.mcpServers, server_names[j])
                       /\ ~Has(config.unusedMcpServers, server_names[j]) }
        kept(e) == e.key \notin names
    IN IF missing # {}
       THEN Raise(ValueError("not found",
                server_names[CHOOSE j \in missing : \A k \in missing : j <= k]), config)
       ELSE Normal([config EXCEPT !.mcpServers = SelectSeq(@, kept),
                                  !.unusedMcpServers = SelectSeq(@, kept)])

\* lines 103-113: check and pop, element by element, from position i on. The
\* pop of line 112 has already changed the in-memory copy when the subscript
\* of line 113 raises KeyError.
RECURSIVE delete_servers_loop(_, _, _)
delete_servers_loop(config, server_names, i) ==
    IF i > Len(server_names) THEN Normal(config)
    ELSE LET name == server_names[i] IN
         IF ~HasKey(config, "mcpServers") THEN Raise(KeyError("mcpServers"), config)
         ELSE IF ~Has(config.mcpServers, name) /\ ~HasKey(config, "unusedMcpServers")
         THEN Raise(KeyError("unusedMcpServers"), config)
         ELSE IF ~Has(config.mcpServers, name) /\ ~Has(config.unusedMcpServers, name)
         THEN Raise(ValueError("not found", name), config)
         ELSE IF ~HasKey(config, "unusedMcpServers")
         THEN Raise(KeyError("unusedMcpServers"),
                    [config EXCEPT !.mcpServers = DelItem(@, name)])
         ELSE delete_servers_loop(pop_server(config, name), server_names, i + 1)

\* Mutant: the in-memory copy is written back also when the loop raises.
delete_servers_WriteOnError(f, server_names) ==
    LET rd == _read_config(f) IN
    IF rd.raised THEN [raised |-> TRUE, exc |-> rd.exc, file |-> f]
    ELSE LET r == delete_servers_loop(rd.config, server_names, 1) IN
         [raised |-> r.raised, exc |-> r.exc, file |-> _write_config(f, r.config)]

delete_servers(f, server_names) ==
    LET rd == _read_config(f) IN
    IF rd.raised THEN [raised |-> TRUE, exc |-> rd.exc, file |-> f]
    ELSE LET r == delete_servers_loop(rd.config, server_names, 1) IN
         IF r.raised THEN [raised |-> TRUE, exc |-> r.exc, file |-> f]
         ELSE [raised |-> FALSE, exc |-> NoExc, file |-> _write_config(f, r.config)]

----------------------------------------------------------------------------
(* History of the calls *)

NoServerConfig == [name |-> "", command |-> "", args |-> <<>>]

\* what read_servers returned, for the calls that return nothing: no mappings
NoRet == [active |-> <<>>, inactive |-> <<>>]

NoCall ==
    [op |-> "init", server_config |-> NoServerConfig, server_names |-> <<>>,
     active |-> FALSE, raised |-> FALSE, exc |-> NoExc, ret |-> NoRet]

\* Holster(config_path)
ConstructCall == [NoCall EXCEPT !.op = "__init__"]

\* read_servers(), with the tuple it returned
ReadCall(out) ==
    [NoCall EXCEPT !.op = "read_servers", !.raised = out.raised, !.exc = out.exc,
                   !.ret = [active |-> out.active, inactive |-> out.inactive]]

\* the file is rewritten by something other than the store
ExternalCall == [NoCall EXCEPT !.op = "external"]

CreateCall(server_config, out) ==
    [op |-> "create_server", server_config |-> server_config, server_names |-> <<>>,
     active |-> FALSE, raised |-> out.raised, exc |-> out.exc, ret |-> NoRet]

UpdateCall(server_names, active, out) ==
    [op |-> "update_server_status", server_config |-> NoServerConfig,
     server_names |-> server_names, active |-> active,
     raised |-> out.raised, exc |-> out.exc, ret |-> NoRet]

DeleteCall(server_names, out) ==
    [op |-> "delete_servers", server_config |-> NoServerConfig,
     server_names |-> server_names, active |-> FALSE,
     raised |-> out.raised, exc |-> out.exc, ret |-> NoRet]

Idle == [stage |-> 0, name |-> "", base |-> EmptyConfig]

\* stage 1: the last call was update_server_status([n], False) with n active;
\* stage 2: the call after it was update_server_status([n], True).
NextRoundTrip(rt, c, before) ==
    IF /\ c.op = "update_server_status" /\ Len(c.server_names) = 1 /\ ~c.active
       /\ before.state = "complete"
       /\ HasKey(before.config, "mcpServers")
       /\ Has(before.config.mcpServers, c.server_names[1])
    THEN [stage |-> 1, name |-> c.server_names[1], base |-> before.config]
    ELSE IF /\ rt.stage = 1 /\ c.op = "update_server_status" /\ c.active
            /\ c.server_names = <<rt.name>>
         THEN [rt EXCEPT !.stage = 2]
         ELSE Idle

\* stage 1: the last call was create_server(r) with r in neither mapping;
\* stage 2: then update_server_status([r], False); stage 3: then delete_servers([r]).
NextLifecycle(lc, c, before) ==
    IF /\ c.op = "create_server" /\ before.state = "complete"
       /\ HasKey(before.config, "mcpServers") /\ HasKey(before.config, "unusedMcpServers")
       /\ ~Has(before.config.mcpServers, c.server_config.name)
       /\ ~Has(before.config.unusedMcpServers, c.server_config.name)
    THEN [stage |-> 1, name |-> c.server_config.name, base |-> before.config]
    ELSE IF /\ lc.stage = 1 /\ c.op = "update_server_status" /\ ~c.active
            /\ c.server_names = <<lc.name>>
         THEN [lc EXCEPT !.stage = 2]
         ELSE IF /\ lc.stage = 2 /\ c.op = "delete_servers"
                 /\ c.server_names = <<lc.name>>
              THEN [lc EXCEPT !.stage = 3]
              ELSE Idle

Record(c) ==
    /\ prev' = file
    /\ call' = c
    /\ round_trip' = NextRoundTrip(round_trip, c, file)
    /\ lifecycle' = NextLifecycle(lifecycle, c, file)

----------------------------------------------------------------------------
(* Values of the variables a specification does not use *)

NoFs == <<>>

NoScan == [op |-> "none"]

NoCallers == <<>>

----------------------------------------------------------------------------
(* The store used by one caller, each call running to completion *)

Init ==
    /\ file = Holster_init(Absent)
    /\ prev = Holster_init(Absent)
    /\ call = NoCall
    /\ round_trip = Idle
    /\ lifecycle = Idle
    /\ pc = "idle"
    /\ pending = EmptyConfig
    /\ fs = NoFs
    /\ scan = NoScan
    /\ callers = NoCallers

CreateServer(server_config) ==
    /\ pc = "idle"
    /\ LET out == create_server(file, server_config) IN
       /\ file' = out.file
       /\ Record(CreateCall(server_config, out))
    /\ UNCHANGED <<pc, pending, fs, scan, callers>>

UpdateServerStatus(server_names, active) ==
    /\ pc = "idle"
    /\ LET out == update_server_status(file, server_names, active) IN
       /\ file' = out.file
       /\ Record(UpdateCall(server_names, active, out))
    /\ UNCHANGED <<pc, pending, fs, scan, callers>>

DeleteServers(server_names) ==
    /\ pc = "idle"
    /\ LET out == delete_servers(file, server_names) IN
       /\ file' = out.file
       /\ Record(DeleteCall(server_names, out))
    /\ UNCHANGED <<pc, pending, fs, scan, callers>>

Next ==
    \/ \E server_config \in ServerConfigs : CreateServer(server_config)
    \/ \E server_names \in Batches, active \in BOOLEAN :
          UpdateServerStatus(server_names, active)
    \/ \E server_names \in Batches : DeleteServers(server_names)

Spec == Init /\ [][Next]_vars

----------------------------------------------------------------------------
(* The same store with _write_config taken step by step: open(path, "w")   *)
(* truncates the file, json.dump sends the text through a buffer that is   *)
(* flushed when it fills and when the file is closed, and the process can  *)
(* be killed between any two steps and started again.                      *)

\* The handler up to its call of _write_config: r is the outcome of the
\* in-memory part, c the call recorded.
Start(r, c) ==
    /\ pc = "idle"
    /\ Record(c)
    /\ pc' = IF r.raised THEN "idle" ELSE "open"
    /\ pending' = IF r.raised THEN EmptyConfig ELSE r.config
    /\ UNCHANGED <<file, fs, scan, callers>>

InMemory(rd, r) == IF rd.raised THEN Raise(rd.exc, EmptyConfig) ELSE r

StartCreateServer(server_config) ==
    LET rd == _read_config(file)
        r == InMemory(rd, create_server_run(rd.config, server_config))
    IN Start(r, CreateCall(server_config, r))

StartUpdateServerStatus(server_names, active) ==
    LET rd == _read_config(file)
        r == InMemory(rd, update_server_status_loop(rd.config, server_names, 1, active))
    IN Start(r, UpdateCall(server_names, active, r))

StartDeleteServers(server_names) ==
    LET rd == _read_config(file)
        r == InMemory(rd, delete_servers_loop(rd.config, server_names, 1))
    IN Start(r, DeleteCall(server_names, r))

\* line 51: open(self.config_path, "w")
OpenForWriting ==
    /\ pc = "open"
    /\ file' = Truncated
    /\ pc' = "dump"
    /\ UNCHANGED <<prev, call, round_trip, lifecycle, pending, fs, scan, callers>>

\* line 52: the buffer fills and a prefix of the text reaches the file
FlushBuffer ==
    /\ pc = "dump"
    /\ file' = Partial(pending)
    /\ UNCHANGED <<prev, call, round_trip, lifecycle, pc, pending, fs, scan, callers>>

\* lines 51-52: json.dump returns and the with block closes the file
CloseFile ==
    /\ pc = "dump"
    /\ file' = Complete(pending)
    /\ pc' = "idle"
    /\ pending' = EmptyConfig
    /\ UNCHANGED <<prev, call, round_trip, lifecycle, fs, scan, callers>>

\* The process is killed inside _write_config.
Kill ==
    /\ pc \in {"open", "dump"}
    /\ pc' = "killed"
    /\ pending' = EmptyConfig
    /\ UNCHANGED <<file, prev, call, round_trip, lifecycle, fs, scan, callers>>

\* A new process constructs the store on the same path.
Restart ==
    /\ pc = "killed"
    /\ file' = Holster_init(file)
    /\ pc' = "idle"
    /\ UNCHANGED <<prev, call, round_trip, lifecycle, pending, fs, scan, callers>>

NextCrash ==
    \/ \E server_config \in ServerConfigs : StartCreateServer(server_config)
    \/ \E server_names \in Batches, active \in BOOLEAN :
          StartUpdateServerStatus(server_names, active)
    \/ \E server_names \in Batches : StartDeleteServers(server_names)
    \/ OpenForWriting
    \/ FlushBuffer
    \/ CloseFile
    \/ Kill
    \/ Restart

SpecCrash == Init /\ [][NextCrash]_vars

----------------------------------------------------------------------------
(* Directories and files. A path is the sequence of its parts below the    *)
(* directory the tree is built in; a text is a sequence of tokens; the     *)
(* filesystem maps each existing directory to the files directly in it.    *)

NoFile == [exists |-> FALSE, readable |-> FALSE, text |-> <<>>]

File(text) == [exists |-> TRUE, readable |-> TRUE, text |-> text]

\* read_text raises on this file
Unreadable == [exists |-> TRUE, readable |-> FALSE, text |-> <<>>]

Directory(py, requirements, pyproject, readme) ==
    [py |-> py, requirements |-> requirements, pyproject |-> pyproject, readme |-> readme]

EmptyDirectory == Directory(<<>>, NoFile, NoFile, NoFile)

IsPrefix(p, q) == Len(p) <= Len(q) /\ SubSeq(q, 1, Len(p)) = p

\* substring in content, for a substring that is one token
Contains(text, token) == \E i \in DOMAIN text : text[i] = token

\* content.lower(), token by token
lower(text) ==
    [i \in DOMAIN text |->
        CASE text[i] = "MCP>=1.0" -> "mcp>=1.0"
          [] text[i] = "FastMCP" -> "fastmcp"
          [] OTHER -> text[i]]

\* "mcp" in content, for a content already lowered
mentions_mcp(text) ==
    \E i \in DOMAIN text : text[i] \in {"mcp[cli]>=1.7.1", "mcp>=1.0", "fastmcp"}

\* dir_path.glob("**/*.py"): the .py files in dir_path and below
glob_py(fsys, dir_path) ==
    UNION { { fsys[d].py[i] : i \in DOMAIN fsys[d].py } :
              d \in { x \in DOMAIN fsys : IsPrefix(dir_path, x) } }

\* lines 278-308
is_mcp_server(fsys, dir_path) ==
    \/ \E f \in glob_py(fsys, dir_path) :
          f.readable /\ (Contains(f.text, "FastMCP") \/ Contains(f.text, "@mcp.tool()"))
    \/ /\ dir_path \in DOMAIN fsys
       /\ \/ LET f == fsys[dir_path].requirements IN
             f.exists /\ f.readable /\ mentions_mcp(lower(f.text))
          \/ LET f == fsys[dir_path].pyproject IN
             f.exists /\ f.readable /\ mentions_mcp(lower(f.text))

\* lines 311-316: the path cut before its first "src" part
get_project_root(path) ==
    IF \E i \in DOMAIN path : path[i] = "src"
    THEN LET src_index == CHOOSE i \in DOMAIN path :
                             /\ path[i] = "src"
                             /\ \A j \in 1..(i - 1) : path[j] # "src"
         IN SubSeq(path, 1, src_index - 1)
    ELSE path

----------------------------------------------------------------------------
(* extract_server_config. A README is a sequence of tokens: the fence of   *)
(* three backticks, the word json, whitespace, braces, commas, the text    *)
(* "mcpServers":, a quoted key with its colon, a "command": "..." member,  *)
(* a "args": [...] member, a scalar value, and any other text.             *)

Tok(kind) == [t |-> kind, name |-> "", args |-> <<>>]

Fence == Tok("fence")

Ws == Tok(" ")

McpServersColon == Tok("\"mcpServers\":")

KeyTok(name) == [t |-> "key", name |-> name, args |-> <<>>]

CommandTok(command) == [t |-> "command", name |-> command, args |-> <<>>]

ArgsTok(args) == [t |-> "args", name |-> "", args |-> args]

Is(text, i, kind) == i \in DOMAIN text /\ text[i].t = kind

\* the position after the whitespace that starts at i (\s*)
SkipWs(text, i) ==
    IF i > Len(text) THEN i
    ELSE CHOOSE j \in i..(Len(text) + 1) :
            /\ \A k \in i..(j - 1) : text[k].t = " "
            /\ ~Is(text, j, " ")

\* the tail of the pattern after the group: \s*(?:})?```
Closes(text, e) ==
    LET k == SkipWs(text, e + 1)
    IN \/ Is(text, k, "fence")
       \/ Is(text, k, "}") /\ Is(text, k + 1, "fence")

NoMatch == [found |-> FALSE, first |-> 0, last |-> 0, end |-> 0]

\* the position after (?:json)? for a fence at s
after_lang(text, s) == IF Is(text, s + 1, "json") THEN s + 2 ELSE s + 1

\* the position after (?:{)?
after_brace(text, b) == IF Is(text, b, "{") THEN b + 1 ELSE b

\* the position where "mcpServers": has to be, for a fence at s
key_position(text, s) ==
    SkipWs(text, after_brace(text, SkipWs(text, after_lang(text, s))))

\* the position of the closing fence, for a group that ends at e
match_end(text, e) ==
    LET k == SkipWs(text, e + 1) IN IF Is(text, k, "fence") THEN k ELSE k + 1

\* [\s\S]*? takes the first closing brace from which the rest matches
shortest_group(text, g, ends) ==
    IF ends = {} THEN NoMatch
    ELSE LET e == CHOOSE x \in ends : \A y \in ends : x <= y
         IN [found |-> TRUE, first |-> g, last |-> e, end |-> match_end(text, e)]

\* the group ({[\s\S]*?}) from position g on
match_group(text, g) ==
    IF ~Is(text, g, "{") THEN NoMatch
    ELSE shortest_group(text, g,
             { e \in (g + 1)..Len(text) : Is(text, e, "}") /\ Closes(text, e) })

\* "mcpServers":\s* at position d
match_key(text, d) ==
    IF ~Is(text, d, "\"mcpServers\":") THEN NoMatch
    ELSE match_group(text, SkipWs(text, d + 1))

\* lines 343-346: the match of
\*   ```(?:json)?\s*(?:{)?\s*"mcpServers":\s*({[\s\S]*?})\s*(?:})?```
\* that starts at position s: the group runs from first to last.
match_at(text, s) ==
    IF ~Is(text, s, "fence") THEN NoMatch
    ELSE match_key(text, key_position(text, s))

\* JSON values
JString(s) == [kind |-> "string", str |-> s, list |-> <<>>, members |-> <<>>]

JList(l) == [kind |-> "list", str |-> "", list |-> l, members |-> <<>>]

JScalar == [kind |-> "scalar", str |-> "", list |-> <<>>, members |-> <<>>]

JObject(members) == [kind |-> "object", str |-> "", list |-> <<>>, members |-> members]

ParseError == [ok |-> FALSE, next |-> 0, members |-> <<>>]

\* json.loads inside an object, from position i on: need says what may come
\* next ("first": a member or the closing brace, "sep": a comma or the
\* closing brace, "member": a member). A repeated key keeps its last value.
RECURSIVE parse_members(_, _, _, _)
parse_members(text, i, need, acc) ==
    IF i > Len(text) THEN ParseError
    ELSE CASE text[i].t = "}" /\ need \in {"first", "sep"} ->
                [ok |-> TRUE, next |-> i + 1, members |-> acc]
           [] text[i].t = "," /\ need = "sep" ->
                parse_members(text, i + 1, "member", acc)
           [] text[i].t = "command" /\ need \in {"first", "member"} ->
                parse_members(text, i + 1, "sep",
                              SetItem(acc, "command", JString(text[i].name)))
           [] text[i].t = "args" /\ need \in {"first", "member"} ->
                parse_members(text, i + 1, "sep",
                              SetItem(acc, "args", JList(text[i].args)))
           [] text[i].t \in {"key", "\"mcpServers\":"} /\ need \in {"first", "member"} ->
                LET key == IF text[i].t = "key" THEN text[i].name ELSE "mcpServers"
                IN IF Is(text, i + 1, "scalar")
                   THEN parse_members(text, i + 2, "sep", SetItem(acc, key, JScalar))
                   ELSE IF Is(text, i + 1, "{")
                   THEN LET v == parse_members(text, i + 2, "first", <<>>)
                        IN IF ~v.ok THEN ParseError
                           ELSE parse_members(text, v.next, "sep",
                                              SetItem(acc, key, JObject(v.members)))
                   ELSE ParseError
           [] OTHER -> ParseError

\* json.loads of a text that must hold one object and nothing after it
json_loads(text) ==
    LET tokens == SelectSeq(text, LAMBDA tok : tok.t # " ")
        r == IF Is(tokens, 1, "{") THEN parse_members(tokens, 2, "first", <<>>)
             ELSE ParseError
    IN [ok |-> r.ok /\ r.next = Len(tokens) + 1, members |-> r.members]

None == [given |-> FALSE, content |-> <<>>]

\* lines 320-326
default_config(dir_path) ==
    [path |-> dir_path, name |-> dir_path[Len(dir_path)], command |-> "uv",
     args |-> <<>>, instructions |-> None]

\* server.get(key, default)
get(server, key, default) == IF Has(server.members, key) THEN Get(server.members, key) ELSE default

\* lines 358-372: the first entry of the map whose value is an object
first_server(config, server_config, content) ==
    LET dicts == { i \in DOMAIN server_config.members :
                     server_config.members[i].value.kind = "object" }
        i == CHOOSE x \in dicts : \A y \in dicts : x <= y
        server == server_config.members[i].value
    IN [config EXCEPT !.name = server_config.members[i].key,
                      !.command = get(server, "command", JString("uv")).str,
                      !.args = get(server, "args", JList(<<>>)).list,
                      !.instructions = [given |-> TRUE, content |-> content]]

\* lines 355-357: the parsed text holds a map with an object-valued entry
usable(json_config) ==
    /\ json_config.ok
    /\ Get(json_config.members, "mcpServers").kind = "object"
    /\ \E i \in DOMAIN Get(json_config.members, "mcpServers").members :
          Get(json_config.members, "mcpServers").members[i].value.kind = "object"

\* line 350: json_str = '{"mcpServers": ' + match.group(1) + "}"
json_str(content, match) ==
    <<Tok("{"), McpServersColon>> \o SubSeq(content, match.first, match.last) \o <<Tok("}")>>

RECURSIVE json_blocks(_, _, _)

\* lines 348-378: one match; a block that does not parse, or holds no
\* object-valued entry, is passed over
json_block(content, config, match, json_config) ==
    IF usable(json_config)
    THEN first_server(config, Get(json_config.members, "mcpServers"), content)
    ELSE json_blocks(content, match.end + 1, config)

next_match(content, config, match) ==
    json_block(content, config, match, json_loads(json_str(content, match)))

first_start(content, config, starts) ==
    IF starts = {} THEN config
    ELSE next_match(content, config,
                    match_at(content, CHOOSE x \in starts : \A y \in starts : x <= y))

\* lines 343-378: the matches of the pattern in order, from position s on;
\* the first block that parses and holds an object-valued entry is returned
json_blocks(content, s, config) ==
    first_start(content, config, { x \in s..Len(content) : match_at(content, x).found })

\* lines 319-386
extract_server_config(fsys, dir_path) ==
    LET config == default_config(dir_path)
        readme == IF dir_path \in DOMAIN fsys THEN fsys[dir_path].readme ELSE NoFile
    IN IF ~readme.exists \/ ~readme.readable THEN config
       ELSE json_blocks(readme.text, 1, config)

\* Mutant: a name already collected keeps its first configuration.
RECURSIVE scan_directories_loop_KeepFirst(_, _, _, _)
scan_directories_loop_KeepFirst(fsys, directories, i, server_configs) ==
    IF i > Len(directories) THEN server_configs
    ELSE LET directory == directories[i]
             server_config == extract_server_config(fsys, get_project_root(directory))
         IN scan_directories_loop_KeepFirst(fsys, directories, i + 1,
               IF directory \in DOMAIN fsys /\ is_mcp_server(fsys, directory)
                  /\ ~Has(server_configs, server_config.name)
               THEN SetItem(server_configs, server_config.name, server_config)
               ELSE server_configs)

\* lines 388-392: the loop over the directories, from position i on
RECURSIVE scan_directories_loop(_, _, _, _)
scan_directories_loop(fsys, directories, i, server_configs) ==
    IF i > Len(directories) THEN server_configs
    ELSE LET directory == directories[i]
             server_config == extract_server_config(fsys, get_project_root(directory))
         IN scan_directories_loop(fsys, directories, i + 1,
               IF directory \in DOMAIN fsys /\ is_mcp_server(fsys, directory)
               THEN SetItem(server_configs, server_config.name, server_config)
               ELSE server_configs)

\* lines 255-394
scan_specific_directories(fsys, directories) ==
    LET server_configs == scan_directories_loop(fsys, directories, 1, <<>>)
    IN [servers |-> server_configs, count |-> Len(server_configs)]

\* scan(root, maxDepth = 2)
MaxDepth == 2

\* the directories directly in dir_path
Subdirectories(fsys, dir_path) ==
    { d \in DOMAIN fsys : Len(d) = Len(dir_path) + 1 /\ IsPrefix(dir_path, d) }

\* scan below dir_path, whose subdirectories are at the given depth: a
\* server-like directory is reported and not entered, any other is entered
\* while the depth allows.
RECURSIVE scan_below(_, _, _)
scan_below(fsys, dir_path, depth) ==
    UNION { IF is_mcp_server(fsys, d) THEN {d}
            ELSE IF depth < MaxDepth THEN scan_below(fsys, d, depth + 1)
            ELSE {} : d \in Subdirectories(fsys, dir_path) }

\* scan_mcp_servers(root): the server-like directories below root, or the
\* error for a root that does not exist
scan_mcp_servers(fsys, root) ==
    IF root \notin DOMAIN fsys
    THEN [raised |-> TRUE, exc |-> ValueError("does not exist", ""), servers |-> {}]
    ELSE [raised |-> FALSE, exc |-> NoExc, servers |-> scan_below(fsys, root, 1)]

----------------------------------------------------------------------------
(* The directory trees scanned: the tree of the tests, with the content of *)
(* one of its directories varied, and an empty tree.                       *)

ServerPy ==
    File(<<"from mcp.server.fastmcp import", "FastMCP", "@mcp.tool()", "def tool(): pass">>)

ImportOnlyPy == File(<<"from mcp.server.fastmcp import", "FastMCP">>)

ToolOnlyPy == File(<<"@mcp.tool()", "def tool(): pass">>)

PlainPy == File(<<"print('not a server')">>)

PyFiles ==
    { <<>>, <<PlainPy>>, <<ImportOnlyPy>>, <<ToolOnlyPy>>, <<ServerPy>>, <<Unreadable>>,
      <<ImportOnlyPy, ToolOnlyPy>>, <<Unreadable, PlainPy>> }

Manifests ==
    { NoFile, File(<<"mcp[cli]>=1.7.1">>), File(<<"requests", "MCP>=1.0">>),
      File(<<"some-package>=1.0.0">>), Unreadable }

CalculatorMap ==
    <<Tok("{"), KeyTok("calculator"), Tok("{"), CommandTok("uvx"), Tok(","),
      ArgsTok(<<"mcp-server-calculator">>), Tok("}"), Tok("}")>>

\* a README whose block opens with "mcpServers": and has no outer braces
CalculatorReadme ==
    File(<<Tok("text"), Ws, Fence, Tok("json"), Ws, McpServersColon, Ws>>
         \o CalculatorMap \o <<Ws, Fence, Ws>>)

ScanReadmes == { NoFile, CalculatorReadme }

Profiles ==
    { Directory(py, requirements, pyproject, readme) :
        py \in PyFiles, requirements \in Manifests,
        pyproject \in { NoFile, File(<<"dependencies", "FastMCP">>), File(<<"[project]">>) },
        readme \in ScanReadmes }

TestServer == Directory(<<ServerPy>>, File(<<"mcp[cli]>=1.7.1">>), NoFile, NoFile)

Root == <<>>

Server1 == <<"mcp-servers", "server1">>

Server2 == <<"mcp-servers", "server2">>

McpServer == <<"my-projects", "project1", "mcp-server">>

Tools == <<"my-projects", "project2", "tools">>

NonServer == <<"non-server">>

\* mock_server_directories with server2 holding the given files
TreeWith(server2) ==
    (Root :> EmptyDirectory)
    @@ (<<"mcp-servers">> :> EmptyDirectory)
    @@ (Server1 :> TestServer)
    @@ (Server2 :> server2)
    @@ (<<"my-projects">> :> EmptyDirectory)
    @@ (<<"my-projects", "project1">> :> EmptyDirectory)
    @@ (McpServer :> TestServer)
    @@ (<<"my-projects", "project2">> :> EmptyDirectory)
    @@ (Tools :> TestServer)
    @@ (NonServer :> Directory(<<PlainPy>>, NoFile, NoFile, NoFile))

TestTree == TreeWith(TestServer)

\* the tree with a src directory in server1, or a README in server1
Extra(tree, extra) ==
    CASE extra = "src" ->
            (Server1 \o <<"src">> :> Directory(<<ServerPy>>, NoFile, NoFile, NoFile)) @@ tree
      [] extra = "readme" ->
            [tree EXCEPT ![Server1] = [@ EXCEPT !.readme = CalculatorReadme]]
      [] OTHER -> tree

EmptyTree == (Root :> EmptyDirectory)

Trees ==
    { Extra(TreeWith(server2), extra) : server2 \in Profiles, extra \in {"none", "src", "readme"} }
    \cup {EmptyTree}

MaxDirs == 2

ScanPaths ==
    { Root, <<"mcp-servers">>, Server1, Server1 \o <<"src">>, Server2, McpServer,
      NonServer, <<"non", "existent">> }

DirectoryLists == UNION { [1..k -> ScanPaths \ {Root}] : k \in 0..MaxDirs }

ScanCall(op, directories, ret) == [op |-> op, directories |-> directories, ret |-> ret]

InitScan ==
    /\ file = Holster_init(Absent)
    /\ prev = file
    /\ call = NoCall
    /\ round_trip = Idle
    /\ lifecycle = Idle
    /\ pc = "idle"
    /\ pending = EmptyConfig
    /\ fs \in Trees
    /\ scan = NoScan
    /\ callers = NoCallers

\* The scanner reads the tree and keeps nothing between calls, so one call
\* on each tree covers every call.
IsMcpServer(dir_path) ==
    /\ scan.op = "none"
    /\ scan' = ScanCall("is_mcp_server", <<dir_path>>, is_mcp_server(fs, dir_path))
    /\ UNCHANGED <<file, prev, call, round_trip, lifecycle, pc, pending, fs, callers>>

ScanSpecificDirectories(directories) ==
    /\ scan.op = "none"
    /\ scan' = ScanCall("scan_specific_directories", directories,
                        scan_specific_directories(fs, directories))
    /\ UNCHANGED <<file, prev, call, round_trip, lifecycle, pc, pending, fs, callers>>

ScanMcpServers(root) ==
    /\ scan.op = "none"
    /\ scan' = ScanCall("scan_mcp_servers", <<root>>, scan_mcp_servers(fs, root))
    /\ UNCHANGED <<file, prev, call, round_trip, lifecycle, pc, pending, fs, callers>>

NextScan ==
    \/ \E dir_path \in ScanPaths : IsMcpServer(dir_path)
    \/ \E directories \in DirectoryLists : ScanSpecificDirectories(directories)
    \/ \E root \in ScanPaths : ScanMcpServers(root)

SpecScan == InitScan /\ [][NextScan]_vars

----------------------------------------------------------------------------
(* READMEs for extract_server_config: up to MaxBlocks fenced blocks, each  *)
(* with or without the outer braces of the JSON object, with or without    *)
(* whitespace before its closing fence.                                    *)

MaxBlocks == 2

CalculatorPipMap ==
    <<Tok("{"), KeyTok("calculator-pip"), Tok("{"), CommandTok("python"), Tok(","),
      ArgsTok(<<"-m", "mcp_server_calculator">>), Tok("}"), Tok("}")>>

Maps ==
    { CalculatorMap,
      CalculatorPipMap,
      <<Tok("{"), KeyTok("calculator"), Tok("{"), CommandTok("uvx"), Tok("text"),
        Tok("}"), Tok("}")>>,
      <<Tok("{"), KeyTok("version"), Tok("scalar"), Tok(","), KeyTok("calculator-pip"),
        Tok("{"), CommandTok("python"), Tok("}"), Tok("}")>>,
      <<Tok("{"), Tok("}")>>,
      <<Tok("{"), KeyTok("calculator"), Tok("{"), Tok("}"), Tok("}")>> }

Block(outer, tight, map) ==
    <<Fence, Tok("json"), Ws>>
    \o (IF outer THEN <<Tok("{")>> ELSE <<>>)
    \o <<McpServersColon, Ws>> \o map
    \o (IF outer THEN <<Tok("}")>> ELSE <<>>)
    \o (IF tight THEN <<>> ELSE <<Ws>>)
    \o <<Fence, Ws>>

Blocks == { Block(outer, tight, map) : outer \in BOOLEAN, tight \in BOOLEAN, map \in Maps }

RECURSIVE Document(_)
Document(blocks) ==
    IF blocks = <<>> THEN <<Tok("text"), Ws>>
    ELSE Document(SubSeq(blocks, 1, Len(blocks) - 1)) \o blocks[Len(blocks)] \o <<Tok("text"), Ws>>

Readmes ==
    { File(Document(blocks)) : blocks \in UNION { [1..k -> Blocks] : k \in 0..MaxBlocks } }
    \cup {NoFile, Unreadable}

Project == <<"projects", "calc">>

InitReadme ==
    /\ file = Holster_init(Absent)
    /\ prev = file
    /\ call = NoCall
    /\ round_trip = Idle
    /\ lifecycle = Idle
    /\ pc = "idle"
    /\ pending = EmptyConfig
    /\ fs \in { (Project :> Directory(<<ServerPy>>, NoFile, NoFile, readme)) : readme \in Readmes }
    /\ scan = NoScan
    /\ callers = NoCallers

ExtractServerConfig(dir_path) ==
    /\ scan.op = "none"
    /\ scan' = ScanCall("extract_server_config", <<dir_path>>,
                        extract_server_config(fs, dir_path))
    /\ UNCHANGED <<file, prev, call, round_trip, lifecycle, pc, pending, fs, callers>>

NextReadme == \E dir_path \in {Project, Project \o <<"docs">>} : ExtractServerConfig(dir_path)

SpecReadme == InitReadme /\ [][NextReadme]_vars

----------------------------------------------------------------------------
(* The store opened on a path that may hold any file, with read_servers,   *)
(* and with the file rewritten between two calls by something else (an     *)
(* editor, the application that owns the configuration).                   *)

OneServer ==
    <<[key |-> "server1",
       value |-> [command |-> "uvx", args |-> <<"mcp-server-calculator">>]]>>

\* Contents the store did not write: no file, an empty file, a cut-off text,
\* documents lacking a top-level key, well-formed documents, and a document
\* that lists server1 in both mappings.
ExternalFiles ==
    { Absent,
      Truncated,
      Partial([mcpServers |-> OneServer, unusedMcpServers |-> <<>>]),
      Complete([mcpServers |-> OneServer]),
      Complete([unusedMcpServers |-> OneServer]),
      Complete(EmptyConfig),
      Complete([mcpServers |-> OneServer, unusedMcpServers |-> <<>>]),
      Complete([mcpServers |-> OneServer, unusedMcpServers |-> OneServer]) }

InitFile ==
    /\ file \in ExternalFiles
    /\ prev = file
    /\ call = NoCall
    /\ round_trip = Idle
    /\ lifecycle = Idle
    /\ pc = "closed"
    /\ pending = EmptyConfig
    /\ fs = NoFs
    /\ scan = NoScan
    /\ callers = NoCallers

\* Holster(config_path)
Construct ==
    /\ pc = "closed"
    /\ file' = Holster_init(file)
    /\ Record(ConstructCall)
    /\ pc' = "idle"
    /\ UNCHANGED <<pending, fs, scan, callers>>

ReadServers ==
    /\ pc = "idle"
    /\ LET out == read_servers(file) IN Record(ReadCall(out))
    /\ UNCHANGED <<file, pc, pending, fs, scan, callers>>

ExternalWrite(f) ==
    /\ pc = "idle"
    /\ f # file
    /\ file' = f
    /\ Record(ExternalCall)
    /\ UNCHANGED <<pc, pending, fs, scan, callers>>

NextFile ==
    \/ Construct
    \/ ReadServers
    \/ \E f \in ExternalFiles : ExternalWrite(f)
    \/ \E server_config \in ServerConfigs : CreateServer(server_config)
    \/ \E server_names \in Batches, active \in BOOLEAN :
          UpdateServerStatus(server_names, active)
    \/ \E server_names \in Batches : DeleteServers(server_names)

SpecFile == InitFile /\ [][NextFile]_vars

----------------------------------------------------------------------------
(* Two Holster objects on the same path, each in its own process. Each     *)
(* process constructs its object (exists(), then open and write when there *)
(* was no file) and then makes calls. A call is three steps: _read_config  *)
(* with the work on the in-memory copy, open(path, "w"), and the close     *)
(* that puts the buffered text into the file. The steps of the two         *)
(* processes interleave. The documents are far shorter than the buffer, so *)
(* json.dump itself writes nothing to the file. Here prev is the content   *)
(* that the last open truncated.                                           *)

Callers == {1, 2}

ConcNames == {"server1", "server2"}

ConcConfigs == { sc \in ServerConfigs : sc.name \in ConcNames /\ sc.command = "uvx" }

\* batches of distinct names (a batch that repeats a name is the subject of
\* the single-caller specification)
ConcBatches ==
    { b \in Batches : /\ \A i \in DOMAIN b : b[i] \in ConcNames
                      /\ \A i, j \in DOMAIN b : b[i] = b[j] => i = j }

\* json.dump(..., indent=2): the members of a dict or the items of a list are
\* each on a line of its own, indented two spaces per level
Indent(depth) == 2 * depth

\* "{" or "[", newline, n indented members with "," and newline between them
\* and sum characters in all, newline, indentation and "}" or "]"; an empty
\* dict or list is "{}" or "[]"
block_len(n, sum, depth) ==
    IF n = 0 THEN 2
    ELSE 2 + n * Indent(depth + 1) + sum + 2 * (n - 1) + 1 + Indent(depth) + 1

\* a string between double quotes
str_len(s) == Len(s) + 2

\* "key": value
member_len(key, value_len) == str_len(key) + 2 + value_len

RECURSIVE args_sum(_, _)
args_sum(args, i) ==
    IF i > Len(args) THEN 0 ELSE str_len(args[i]) + args_sum(args, i + 1)

\* {"command": ..., "args": [...]} as the value of a name
server_len(value) ==
    block_len(2, member_len("command", str_len(value.command))
                 + member_len("args", block_len(Len(value.args), args_sum(value.args, 1), 3)),
              2)

RECURSIVE servers_sum(_, _)
servers_sum(d, i) ==
    IF i > Len(d) THEN 0
    ELSE member_len(d[i].key, server_len(d[i].value)) + servers_sum(d, i + 1)

mapping_len(d) == block_len(Len(d), servers_sum(d, 1), 1)

\* the number of characters json.dump(config, f, indent=2) writes
text_len(config) ==
    block_len(2, member_len("mcpServers", mapping_len(config.mcpServers))
                 + member_len("unusedMcpServers", mapping_len(config.unusedMcpServers)),
              0)

\* A document was written from offset 0 over the longer text of config, which
\* another process had written after this one opened the file: the file
\* holds the document followed by the tail of the text of config.
Overwritten(config) == [state |-> "overwritten", config |-> config]

\* the number of characters the file holds
file_len(f) == IF f.state \in {"complete", "overwritten"} THEN text_len(f.config) ELSE 0

\* Mutant: the document is merged into what the file holds instead of
\* replacing it.
flush_text_Merge(f, config) ==
    IF f.state # "complete" THEN Complete(config)
    ELSE LET new(old, key) == SelectSeq(old, LAMBDA e : ~Has(config[key], e.key))
         IN Complete([mcpServers |->
                          config.mcpServers \o new(f.config.mcpServers, "mcpServers"),
                      unusedMcpServers |->
                          config.unusedMcpServers
                              \o new(f.config.unusedMcpServers, "unusedMcpServers")])

\* lines 41-42, 51-52: the with block exits and close() writes the text of
\* config from offset 0, where the file object has been since its open
flush_text(f, config) ==
    IF text_len(config) >= file_len(f) THEN Complete(config) ELSE Overwritten(f.config)

NewCaller == [pc |-> "new", mem |-> EmptyConfig, call |-> NoCall]

IdleCaller == [pc |-> "idle", mem |-> EmptyConfig, call |-> NoCall]

InitConc ==
    /\ file = Absent
    /\ prev = file
    /\ call = NoCall
    /\ round_trip = Idle
    /\ lifecycle = Idle
    /\ pc = "idle"
    /\ pending = EmptyConfig
    /\ fs = NoFs
    /\ scan = NoScan
    /\ callers = [c \in Callers |-> NewCaller]

\* line 39 of Holster.__init__: with no file the constructor goes on to write
\* the initial document, else it returns
ConcExists(c) ==
    /\ callers[c].pc = "new"
    /\ IF file.state = "absent"
       THEN /\ callers' = [callers EXCEPT ![c] =
                              [pc |-> "open", mem |-> EmptyConfig, call |-> ConstructCall]]
            /\ UNCHANGED <<prev, call>>
       ELSE /\ callers' = [callers EXCEPT ![c] = IdleCaller]
            /\ prev' = file
            /\ call' = ConstructCall
    /\ UNCHANGED <<file, round_trip, lifecycle, pc, pending, fs, scan>>

\* Caller c runs a method up to its call of _write_config: r is the outcome
\* of the in-memory part, cl the call. A raise ends the call here.
ReadStep(c, r, cl) ==
    /\ callers[c].pc = "idle"
    /\ IF r.raised
       THEN /\ prev' = file
            /\ call' = cl
            /\ UNCHANGED callers
       ELSE /\ callers' = [callers EXCEPT ![c] = [pc |-> "open", mem |-> r.config, call |-> cl]]
            /\ UNCHANGED <<prev, call>>
    /\ UNCHANGED <<file, round_trip, lifecycle, pc, pending, fs, scan>>

ConcCreateServer(c, server_config) ==
    LET rd == _read_config(file)
        r == InMemory(rd, create_server_run(rd.config, server_config))
    IN ReadStep(c, r, CreateCall(server_config, r))

ConcUpdateServerStatus(c, server_names, active) ==
    LET rd == _read_config(file)
        r == InMemory(rd, update_server_status_loop(rd.config, server_names, 1, active))
    IN ReadStep(c, r, UpdateCall(server_names, active, r))

ConcDeleteServers(c, server_names) ==
    LET rd == _read_config(file)
        r == InMemory(rd, delete_servers_loop(rd.config, server_names, 1))
    IN ReadStep(c, r, DeleteCall(server_names, r))

\* lines 41 and 51: open(self.config_path, "w") creates or truncates the file
ConcOpen(c) ==
    /\ callers[c].pc = "open"
    /\ file' = Truncated
    /\ prev' = file
    /\ callers' = [callers EXCEPT ![c].pc = "close"]
    /\ UNCHANGED <<call, round_trip, lifecycle, pc, pending, fs, scan>>

\* lines 42 and 52: json.dump fills the buffer, the with block closes the
\* file and the constructor or the method returns
ConcClose(c) ==
    /\ callers[c].pc = "close"
    /\ file' = flush_text(file, callers[c].mem)
    /\ call' = callers[c].call
    /\ callers' = [callers EXCEPT ![c] = IdleCaller]
    /\ UNCHANGED <<prev, round_trip, lifecycle, pc, pending, fs, scan>>

NextConc ==
    \/ \E c \in Callers : ConcExists(c)
    \/ \E c \in Callers, server_config \in ConcConfigs : ConcCreateServer(c, server_config)
    \/ \E c \in Callers, server_names \in ConcBatches, active \in BOOLEAN :
          ConcUpdateServerStatus(c, server_names, active)
    \/ \E c \in Callers, server_names \in ConcBatches : ConcDeleteServers(c, server_names)
    \/ \E c \in Callers : ConcOpen(c)
    \/ \E c \in Callers : ConcClose(c)

SpecConc == InitConc /\ [][NextConc]_vars

----------------------------------------------------------------------------
(* Properties *)

Active(f) == f.config.mcpServers

Inactive(f) == f.config.unusedMcpServers

\* C1: after any sequence of create_server, update_server_status and
\* delete_servers calls from the fresh store, the persisted document is
\* complete, no name is a key of both mappings and no key occurs twice in a
\* mapping.
C1_Partition ==
    /\ file.state = "complete"
    /\ Keys(Active(file)) \cap Keys(Inactive(file)) = {}
    /\ Cardinality(Keys(Active(file))) = Len(Active(file))
    /\ Cardinality(Keys(Inactive(file))) = Len(Inactive(file))

\* Both mappings hold entries after a failing call that followed moves.
C1_Witness ==
    /\ call.raised
    /\ Active(file) # <<>>
    /\ Inactive(file) # <<>>

\* C2: create_server with a name that is a key of the active or of the
\* inactive mapping raises the "already exists" error for that name and
\* leaves the file as it was.
C2_DuplicateRejected ==
    (/\ call.op = "create_server"
     /\ \/ Has(Active(prev), call.server_config.name)
        \/ Has(Inactive(prev), call.server_config.name))
    => /\ call.raised
       /\ call.exc = ValueError("already exists", call.server_config.name)
       /\ file = prev

\* A create whose name is held by the inactive mapping, with another launch
\* specification than the stored one.
C2_Witness ==
    /\ call.op = "create_server"
    /\ Has(Inactive(prev), call.server_config.name)
    /\ Get(Inactive(prev), call.server_config.name).command # call.server_config.command
    /\ call.raised

\* C3: update_server_status with a batch holding a name that is not in the
\* source mapping raises the not-found error and leaves the file as it was,
\* wherever the name stands in the batch.
C3_UpdateAtomic ==
    (/\ call.op = "update_server_status"
     /\ \E i \in DOMAIN call.server_names :
           ~Has(prev.config[source_key(call.active)], call.server_names[i]))
    => /\ call.raised
       /\ call.exc.type = "ValueError"
       /\ call.exc.msg = NotFoundIn(call.active)
       /\ file = prev

\* A batch whose first name is in the source mapping and whose second is not:
\* the first has been moved in memory when the call raises.
C3_Witness ==
    /\ call.op = "update_server_status"
    /\ Len(call.server_names) = 2
    /\ Has(prev.config[source_key(call.active)], call.server_names[1])
    /\ ~Has(prev.config[source_key(call.active)], call.server_names[2])
    /\ call.raised

\* C4: delete_servers with a batch holding a name that is in neither mapping
\* raises the not-found error and leaves the file as it was, wherever the name
\* stands in the batch.
C4_DeleteAtomic ==
    (/\ call.op = "delete_servers"
     /\ \E i \in DOMAIN call.server_names :
           /\ ~Has(Active(prev), call.server_names[i])
           /\ ~Has(Inactive(prev), call.server_names[i]))
    => /\ call.raised
       /\ call.exc.type = "ValueError"
       /\ call.exc.msg = "not found"
       /\ file = prev

\* A batch whose first name is stored and whose second is in neither mapping:
\* the first has been popped in memory when the call raises.
C4_Witness ==
    /\ call.op = "delete_servers"
    /\ Len(call.server_names) = 2
    /\ \/ Has(Active(prev), call.server_names[1])
       \/ Has(Inactive(prev), call.server_names[1])
    /\ ~Has(Active(prev), call.server_names[2])
    /\ ~Has(Inactive(prev), call.server_names[2])
    /\ call.raised

\* C5: a save that is interrupted before it completes leaves the previous
\* committed document in the file, in full.
C5_CrashSafe ==
    pc = "killed" => /\ file.state = "complete"
                     /\ file = prev

\* C6: create_server with a name in neither mapping succeeds, and read_servers
\* then shows the name in the active mapping with the command and the args
\* given, not in the inactive mapping, the active mapping one entry longer.
C6_CreateThenList ==
    (/\ call.op = "create_server"
     /\ ~Has(Active(prev), call.server_config.name)
     /\ ~Has(Inactive(prev), call.server_config.name))
    => /\ ~call.raised
       /\ LET l == read_servers(file)
              name == call.server_config.name
          IN /\ ~l.raised
             /\ Has(l.active, name)
             /\ Get(l.active, name) = [command |-> call.server_config.command,
                                       args |-> call.server_config.args]
             /\ ~Has(l.inactive, name)
             /\ Len(l.active) = Len(Active(prev)) + 1
             /\ Len(l.inactive) = Len(Inactive(prev))

\* A successful create into a store that holds active and inactive entries.
C6_Witness ==
    /\ call.op = "create_server"
    /\ ~call.raised
    /\ Active(prev) # <<>>
    /\ Inactive(prev) # <<>>

\* C7: for a name n of the active mapping, update_server_status([n], False)
\* succeeds and leaves n in the inactive and not in the active mapping; a
\* following update_server_status([n], True) succeeds and leaves both mappings
\* with the names and the command/args they had before the two calls.
C7_RoundTrip ==
    /\ round_trip.stage = 1 =>
          /\ ~call.raised
          /\ Has(Inactive(file), round_trip.name)
          /\ ~Has(Active(file), round_trip.name)
    /\ round_trip.stage = 2 =>
          /\ ~call.raised
          /\ AsMap(Active(file)) = AsMap(round_trip.base.mcpServers)
          /\ AsMap(Inactive(file)) = AsMap(round_trip.base.unusedMcpServers)

\* A completed round trip of a name that was not the last entry of the active
\* mapping: the mapping is the same and its order in the file is not.
C7_Witness ==
    /\ round_trip.stage = 2
    /\ Inactive(file) # <<>>
    /\ Active(file) # round_trip.base.mcpServers

BatchNames(server_names) == { server_names[i] : i \in DOMAIN server_names }

\* C8: delete_servers with a batch of names each of which is in the active or
\* the inactive mapping succeeds, leaves none of them in either mapping, and
\* shortens each mapping by the number of batch names it held.
C8_DeleteRemoves ==
    (/\ call.op = "delete_servers"
     /\ \A i \in DOMAIN call.server_names :
           \/ Has(Active(prev), call.server_names[i])
           \/ Has(Inactive(prev), call.server_names[i]))
    => /\ ~call.raised
       /\ LET l == read_servers(file)
              batch == BatchNames(call.server_names)
          IN /\ ~l.raised
             /\ batch \cap (Keys(l.active) \cup Keys(l.inactive)) = {}
             /\ Len(l.active) = Len(Active(prev)) - Cardinality(batch \cap Keys(Active(prev)))
             /\ Len(l.inactive) =
                   Len(Inactive(prev)) - Cardinality(batch \cap Keys(Inactive(prev)))

\* C9: create_server(r) for a name r in neither mapping, then
\* update_server_status([r], False), then delete_servers([r]): each call
\* succeeds, the counts are (a+1, i), then (a, i+1), then (a, i), and the final
\* document is the initial one, entry for entry.
C9_Lifecycle ==
    LET a == Len(lifecycle.base.mcpServers)
        i == Len(lifecycle.base.unusedMcpServers)
    IN /\ lifecycle.stage = 1 =>
             /\ ~call.raised
             /\ Len(Active(file)) = a + 1 /\ Len(Inactive(file)) = i
       /\ lifecycle.stage = 2 =>
             /\ ~call.raised
             /\ Len(Active(file)) = a /\ Len(Inactive(file)) = i + 1
       /\ lifecycle.stage = 3 =>
             /\ ~call.raised
             /\ Len(Active(file)) = a /\ Len(Inactive(file)) = i
             /\ file = Complete(lifecycle.base)

\* The three calls done on a store that held active and inactive entries.
C9_Witness ==
    /\ lifecycle.stage = 3
    /\ lifecycle.base.mcpServers # <<>>
    /\ lifecycle.base.unusedMcpServers # <<>>

\* C10: update_server_status raises exactly when some name of the batch is not
\* in the source mapping (the one opposite to the target), and the not-found
\* error then names the first such entry of the batch.
C10_FirstMissing ==
    call.op = "update_server_status" =>
        LET src == prev.config[source_key(call.active)]
            missing == { i \in DOMAIN call.server_names : ~Has(src, call.server_names[i]) }
        IN /\ call.raised <=> missing # {}
           /\ call.raised =>
                 /\ missing # {}
                 /\ call.exc = ValueError(NotFoundIn(call.active),
                          call.server_names[CHOOSE i \in missing : \A j \in missing : i <= j])

WellFormed(f) ==
    /\ f.state = "complete"
    /\ HasKey(f.config, "mcpServers")
    /\ HasKey(f.config, "unusedMcpServers")

\* The file exists and is not a document with the two top-level keys.
Corrupt(f) == f.state # "absent" /\ ~WellFormed(f)

RegistryOps == {"create_server", "read_servers", "update_server_status", "delete_servers"}

\* C11: on a file that is not valid JSON or lacks one of the two top-level
\* keys, every registry operation ends in the error that loading a corrupt
\* file raises (json.JSONDecodeError in _read_config) and writes nothing.
C11_CorruptConfigError ==
    (call.op \in RegistryOps /\ Corrupt(prev))
    => /\ call.raised
       /\ call.exc = JSONDecodeError
       /\ file = prev

\* C12: constructing the store on a path with no file leaves a document with
\* two empty mappings, which read_servers returns as (empty, empty); on a path
\* with a file it leaves the file as it is, whatever it holds.
C12_Open ==
    call.op = "__init__" =>
        IF prev.state = "absent"
        THEN /\ file = Complete(EmptyConfig)
             /\ LET l == read_servers(file)
                IN ~l.raised /\ l.active = <<>> /\ l.inactive = <<>>
        ELSE file = prev

\* The store constructed on a file that is not a well-formed document.
C12_Witness ==
    /\ call.op = "__init__"
    /\ Corrupt(prev)

\* C13: read_servers leaves the file as it is, and on a well-formed document
\* it returns the two mappings the file holds at that moment, whoever wrote
\* them.
C13_ListIsFile ==
    call.op = "read_servers" =>
        /\ file = prev
        /\ WellFormed(file) =>
              /\ ~call.raised
              /\ call.ret.active = file.config.mcpServers
              /\ call.ret.inactive = file.config.unusedMcpServers

\* read_servers returns a name in both mappings: a document only an external
\* writer can have left.
C13_Witness ==
    /\ call.op = "read_servers"
    /\ ~call.raised
    /\ Keys(call.ret.active) \cap Keys(call.ret.inactive) # {}

\* C18: a successful update_server_status keeps the set of all names and the
\* total number of entries, leaves every name of the batch in the target
\* mapping with the command and args it had, and leaves every other name in
\* its mapping with its command and args.
C18_MoveConserves ==
    (call.op = "update_server_status" /\ ~call.raised) =>
        LET src == prev.config[source_key(call.active)]
            tgt == file.config[target_key(call.active)]
            batch == BatchNames(call.server_names)
        IN /\ Keys(Active(file)) \cup Keys(Inactive(file))
                = Keys(Active(prev)) \cup Keys(Inactive(prev))
           /\ Len(Active(file)) + Len(Inactive(file))
                = Len(Active(prev)) + Len(Inactive(prev))
           /\ \A name \in batch :
                 /\ Has(tgt, name)
                 /\ ~Has(file.config[source_key(call.active)], name)
                 /\ Get(tgt, name) = Get(src, name)
           /\ \A name \in Keys(Active(prev)) \ batch :
                 Has(Active(file), name) /\ Get(Active(file), name) = Get(Active(prev), name)
           /\ \A name \in Keys(Inactive(prev)) \ batch :
                 Has(Inactive(file), name)
                 /\ Get(Inactive(file), name) = Get(Inactive(prev), name)

\* A batch of two names moved with args, next to a name in each mapping that
\* is not in the batch.
C18_Witness ==
    /\ call.op = "update_server_status"
    /\ ~call.raised
    /\ Cardinality(BatchNames(call.server_names)) = 2
    /\ \E name \in BatchNames(call.server_names) :
          Get(file.config[target_key(call.active)], name).args # <<>>
    /\ Keys(file.config[source_key(call.active)]) # {}

\* The positions of a batch that the element-by-element loops reject: the
\* name is missing from the document as read, or repeats an earlier entry.
Rejected(server_names, stored) ==
    { j \in DOMAIN server_names :
        \/ server_names[j] \notin stored
        \/ \E i \in 1..(j - 1) : server_names[i] = server_names[j] }

Repeats(server_names, stored) ==
    \E i, j \in DOMAIN server_names :
        i < j /\ server_names[i] = server_names[j] /\ server_names[i] \in stored

First(S) == CHOOSE j \in S : \A k \in S : j <= k

\* C19: a batch that lists a stored name twice makes update_server_status
\* (name in the source mapping) and delete_servers (name in either mapping)
\* raise the not-found error, naming the first entry that is missing or
\* repeats an earlier one, and the file is left as it was.
C19_RepeatedName ==
    /\ call.op = "update_server_status" =>
          LET stored == Keys(prev.config[source_key(call.active)]) IN
          Repeats(call.server_names, stored) =>
              /\ call.raised
              /\ call.exc = ValueError(NotFoundIn(call.active),
                     call.server_names[First(Rejected(call.server_names, stored))])
              /\ file = prev
    /\ call.op = "delete_servers" =>
          LET stored == Keys(Active(prev)) \cup Keys(Inactive(prev)) IN
          Repeats(call.server_names, stored) =>
              /\ call.raised
              /\ call.exc = ValueError("not found",
                     call.server_names[First(Rejected(call.server_names, stored))])
              /\ file = prev

\* delete_servers given a stored name twice, with other names stored too.
C19_Witness ==
    /\ call.op = "delete_servers"
    /\ Repeats(call.server_names, Keys(Active(prev)) \cup Keys(Inactive(prev)))
    /\ call.raised
    /\ Len(Active(prev)) + Len(Inactive(prev)) >= 2

AllNames(f) == Keys(Active(f)) \cup Keys(Inactive(f))

\* C20: with two store objects on the same file whose read, open and close
\* steps interleave, every document a write leaves on the file has no name in
\* both mappings, and so has every in-memory copy waiting to be written.
C20_ConcurrentPartition ==
    /\ file.state = "complete" => Keys(Active(file)) \cap Keys(Inactive(file)) = {}
    /\ \A c \in Callers :
          callers[c].pc \in {"open", "close"} =>
              Keys(callers[c].mem.mcpServers) \cap Keys(callers[c].mem.unusedMcpServers) = {}

\* A lost update: a create_server call has just written a document that lacks
\* a name the file held at the last open, which the other caller had added
\* after this caller read.
C20_Witness ==
    /\ call.op = "create_server"
    /\ ~call.raised
    /\ callers = [c \in Callers |-> IdleCaller]
    /\ file.state = "complete"
    /\ prev.state = "complete"
    /\ AllNames(prev) \ AllNames(file) # {}

\* isServerLike as the claim states it: a source file below the directory
\* holds both markers, or a manifest directly in it mentions the framework.
HasBothMarkers(fsys, dir_path) ==
    \E f \in glob_py(fsys, dir_path) :
        f.readable /\ Contains(f.text, "FastMCP") /\ Contains(f.text, "@mcp.tool()")

ManifestMentions(fsys, dir_path) ==
    /\ dir_path \in DOMAIN fsys
    /\ \E f \in {fsys[dir_path].requirements, fsys[dir_path].pyproject} :
          f.exists /\ f.readable /\ mentions_mcp(lower(f.text))

\* C14: is_mcp_server is true exactly when a source file beneath the
\* directory contains both the import marker and the tool marker, or a
\* manifest directly in the directory mentions mcp in any case; a directory
\* with one marker only and no such manifest is not server-like.
C14_BothMarkers ==
    scan.op = "is_mcp_server" =>
        (scan.ret <=> \/ HasBothMarkers(fs, scan.directories[1])
                      \/ ManifestMentions(fs, scan.directories[1]))

\* C15: scan_mcp_servers on the tree of the tests returns exactly server1,
\* server2, project1/mcp-server and project2/tools; a directory without
\* subdirectories gives the empty set, a root that does not exist the
\* not-found error, and no directory below a reported one is reported.
C15_ScanTestTree ==
    scan.op = "scan_mcp_servers" =>
        LET root == scan.directories[1] IN
        /\ scan.ret.raised <=> root \notin DOMAIN fs
        /\ scan.ret.raised => scan.ret.exc.type = "ValueError"
        /\ (fs = TestTree /\ root = Root) =>
              scan.ret.servers = {Server1, Server2, McpServer, Tools}
        /\ (root \in DOMAIN fs /\ Subdirectories(fs, root) = {}) => scan.ret.servers = {}
        /\ \A d, e \in scan.ret.servers : d # e => ~IsPrefix(d, e)

\* the content of the first fenced block of a text, without whitespace and
\* the language word
FirstFencedBlock(text) ==
    LET fences == { i \in DOMAIN text : text[i].t = "fence" }
        open == CHOOSE i \in fences : \A j \in fences : i <= j
        close == CHOOSE i \in fences \ {open} : \A j \in fences \ {open} : i <= j
    IN SelectSeq(SubSeq(text, open + 1, close - 1), LAMBDA tok : tok.t \notin {" ", "json"})

HasFencedBlock(text) == Cardinality({ i \in DOMAIN text : text[i].t = "fence" }) >= 2

\* {"mcpServers": {"calculator": {"command": "uvx", "args": ["mcp-server-calculator"]}}}
CalculatorObject == <<Tok("{"), McpServersColon>> \o CalculatorMap \o <<Tok("}")>>

\* C16: for a README whose first fenced block is the calculator object,
\* extract_server_config returns name calculator, command uvx, args
\* ["mcp-server-calculator"] and the whole README as instructions, whatever
\* blocks follow; without a README, or without a fenced block, it returns the
\* default (name of the directory, command uv, no args, no instructions).
C16_ExtractCalculator ==
    scan.op = "extract_server_config" =>
        LET dir_path == scan.directories[1]
            readme == IF dir_path \in DOMAIN fs THEN fs[dir_path].readme ELSE NoFile
        IN /\ (readme.exists /\ readme.readable /\ HasFencedBlock(readme.text)
               /\ FirstFencedBlock(readme.text) = CalculatorObject)
              => /\ scan.ret.name = "calculator"
                 /\ scan.ret.command = "uvx"
                 /\ scan.ret.args = <<"mcp-server-calculator">>
                 /\ scan.ret.instructions = [given |-> TRUE, content |-> readme.text]
           /\ (~readme.exists \/ ~HasFencedBlock(readme.text))
              => scan.ret = default_config(dir_path)

\* the positions of a list whose directory exists and is server-like
Accepted(fsys, directories) ==
    { i \in DOMAIN directories :
        directories[i] \in DOMAIN fsys /\ is_mcp_server(fsys, directories[i]) }

Suggested(fsys, directory) == extract_server_config(fsys, get_project_root(directory))

\* C17: scan_specific_directories returns one entry per distinct suggested
\* name among the listed directories that exist and are server-like, and
\* nothing for the others; of two such directories with the same name the
\* later one's configuration is kept; count is the number of entries.
C17_LastWins ==
    scan.op = "scan_specific_directories" =>
        LET directories == scan.directories
            servers == scan.ret.servers
            accepted == Accepted(fs, directories)
            named(name) == { i \in accepted : Suggested(fs, directories[i]).name = name }
        IN /\ Keys(servers) = { Suggested(fs, directories[i]).name : i \in accepted }
           /\ Len(servers) = Cardinality(Keys(servers))
           /\ scan.ret.count = Cardinality(Keys(servers))
           /\ \A name \in Keys(servers) :
                 LET last == CHOOSE i \in named(name) : \A j \in named(name) : j <= i
                 IN Get(servers, name) = Suggested(fs, directories[last])

\* Two listed directories with different project roots suggest one name.
C17_Witness ==
    /\ scan.op = "scan_specific_directories"
    /\ \E i, j \in Accepted(fs, scan.directories) :
          /\ i < j
          /\ Suggested(fs, scan.directories[i]).name = Suggested(fs, scan.directories[j]).name
          /\ Suggested(fs, scan.directories[i]).path # Suggested(fs, scan.directories[j]).path
    /\ scan.ret.count = 1

====
